---- MODULE Spec2Model ----
(***************************************************************************)
(* Ingestion pipeline of the Warcraft Logs analyzer.                       *)
(*                                                                         *)
(* main.py      process_report_endpoint, _process_report_background        *)
(* wcl_service  fetch_report_data (metadata request, event pagination)     *)
(* crud.py      get_report_by_code, create_report, create_fight,           *)
(*              get_or_create_player, create_*_events_bulk, delete_report  *)
(* models.py    the tables and their constraints                           *)
(*                                                                         *)
(* Every ingestion unit is one run of _process_report_background with its  *)
(* own AsyncSession.  A session sees the committed storage plus its own    *)
(* uncommitted changes; commit publishes them, rollback drops them.        *)
(***************************************************************************)
EXTENDS Integers, Sequences, FiniteSets, TLC

\* ------------------------------------------------------------------ bounds

\* Number of ingestion units that can be in flight at the same time.
MaxUnits == 2
\* Number of trigger requests accepted in one behaviour.
MaxRuns == 2
\* Number of environment failures (HTTP error, storage error) in one behaviour.
MaxFaults == 1
\* Primary keys a unit may draw: unit number n draws from n * IdBlock upwards.
IdBlock == 8

Units == 1..MaxUnits

\* Python's None for an integer-valued field.
None == -1

\* Python truthiness of an optional integer: None and 0 are falsy.
Truthy(x) == x # None /\ x # 0

\* A JSON value that is not an integer (a string, say) where the schemas want
\* one: timestamp_ms: int, ability_game_id: int (schemas.py:34-36).
Bad == -2

\* ------------------------------------------------------ the external source

\* A raw event of the WCL events query (main.py:168-174 reads these keys;
\* killingBlowActor is read at main.py:277).  A key that is absent reads as None.
RawEvent(type, timestamp, fight, ability, source, target, npc, kb) ==
    [type |-> type, timestamp |-> timestamp, fight |-> fight,
     abilityGameID |-> ability, sourceID |-> source, targetID |-> target,
     targetNPCID |-> npc, killingBlowActor |-> kb]

Actor(id, name) == [id |-> id, name |-> name]

\* What the source holds for a report code: the fight ids, the actor roster and
\* the event pages (each page is answered by one events request).
ReportData(fights, actors, pages) ==
    [fights |-> fights, actors |-> actors, pages |-> pages]

Codes == {"a", "b", "c"}

\* Report codes whose data exercise the resolver and the normalizer.
PassCodes == {"d", "e", "f", "g", "i", "j"}

\* Report codes whose data the read requests are made for.
ReadCodes == {"h"}

\* A raw damage or heal event with its amount.
WithAmount(event, amount) == ("amount" :> amount) @@ event

\* The source is a function of the report code (it is not edited upstream
\* during a behaviour), so two runs for one code read identical data.
Source(c) ==
    CASE c = "a" ->
           ReportData(<<1>>,
                      <<Actor(1, "A")>>,
                      << <<RawEvent("damage", 10, 1, 100, 1, None, 7, None)>>,
                         <<RawEvent("cast", 20, 1, 101, 1, None, None, None)>> >>)
      [] c = "b" ->
           ReportData(<<1, 2>>,
                      <<Actor(1, "A"), Actor(2, "B")>>,
                      << <<RawEvent("heal", 5, 2, 200, 2, 1, None, None),
                           RawEvent("death", 6, 1, 201, None, 2, None, 1)>> >>)
      [] c = "d" ->
           \* one event of every kind that resolves, then events that lack
           \* what their kind needs, then a stack change of a debuff
           ReportData(<<1>>,
                      <<Actor(1, "A"), Actor(2, "B"), Actor(1, "A")>>,
                      << <<RawEvent("cast", 10, 1, 100, 1, None, None, None),
                           RawEvent("applybuff", 11, 1, 101, None, 2, None, None),
                           RawEvent("damage", 12, 1, 102, 1, None, 7, None),
                           RawEvent("heal", 13, 1, 103, 2, 1, 9, None),
                           RawEvent("death", 14, 1, 104, None, 2, None, 1)>>,
                         <<RawEvent("cast", 20, 1, 100, None, 2, None, None),
                           RawEvent("removebuff", 21, 1, 101, 1, None, None, None),
                           RawEvent("damage", 22, 1, 102, 9, 2, None, None),
                           RawEvent("heal", 23, 1, 103, 1, None, None, None),
                           RawEvent("death", 24, 1, 104, None, None, None, 1),
                           RawEvent("applydebuffstack", 25, 1, 105, 1, 2, None, None)>> >>)
      [] c = "e" ->
           \* a damage event whose timestamp is not an integer
           ReportData(<<1>>,
                      <<Actor(1, "A")>>,
                      << <<RawEvent("cast", 10, 1, 100, 1, None, None, None),
                           RawEvent("damage", Bad, 1, 102, 1, None, 7, None),
                           RawEvent("cast", 30, 1, 100, 1, None, None, None)>> >>)
      [] c = "f" ->
           \* a fight entry without an id
           ReportData(<<1, None>>,
                      <<Actor(1, "A")>>,
                      << <<RawEvent("cast", 10, 1, 100, 1, None, None, None)>> >>)
      [] c = "g" ->
           \* a roster entry without an id
           ReportData(<<1>>,
                      <<Actor(1, "A"), Actor(None, "N")>>,
                      << <<RawEvent("cast", 10, 1, 100, 1, None, None, None)>> >>)
      [] c = "i" ->
           \* a roster that lists an actor twice, under two names
           ReportData(<<1>>,
                      <<Actor(1, "A"), Actor(2, "B"), Actor(1, "X")>>,
                      << <<RawEvent("cast", 10, 1, 100, 1, 2, None, None)>> >>)
      [] c = "j" ->
           \* a fight list that holds an external fight id twice
           ReportData(<<1, 1>>,
                      <<Actor(1, "A")>>,
                      << <<RawEvent("cast", 10, 1, 100, 1, None, None, None)>> >>)
      [] c = "h" ->
           \* two fights; A does damage in both, B in the first; the kinds
           \* alternate in time
           ReportData(<<1, 2>>,
                      <<Actor(1, "A"), Actor(2, "B")>>,
                      << <<WithAmount(RawEvent("damage", 10, 1, 100, 1, None, 7, None), 100),
                           WithAmount(RawEvent("heal", 15, 1, 103, 2, 1, None, None), 7),
                           RawEvent("cast", 20, 1, 101, 1, None, None, None),
                           WithAmount(RawEvent("damage", 30, 2, 100, 1, None, 7, None), 50),
                           WithAmount(RawEvent("damage", 40, 1, 100, 2, None, 7, None), 30)>> >>)
      [] OTHER ->
           ReportData(<<>>, <<Actor(3, "C")>>, << >>)

\* The name the source gives with the fight entry of an id (the field name of
\* FightCreate, schemas.py:156).
FightName(id) ==
    CASE id = 1 -> "Boss1"
      [] id = 2 -> "Boss2"
      [] OTHER  -> ""

\* ----------------------------------------------------------------- storage

\* The tables of models.py.  The five event tables are one set of rows with
\* the table as the field kind.
EmptyStorage == [reports |-> {}, fights |-> {}, players |-> {}, events |-> {}]

\* A session's uncommitted work: the reports marked for deletion and the
\* rows flushed but not committed.
EmptyTx == [deleted |-> {}, ins |-> EmptyStorage]

\* Report.fights/players/*_events are cascade="all, delete-orphan"
\* (models.py:127-135): deleting a report deletes every row it owns.
CascadeDelete(s, ids) ==
    [reports |-> {r \in s.reports : r.id \notin ids},
     fights  |-> {f \in s.fights  : f.report_id \notin ids},
     players |-> {p \in s.players : p.report_id \notin ids},
     events  |-> {e \in s.events  : e.report_id \notin ids}]

Merge(s, t) ==
    [reports |-> s.reports \cup t.reports,
     fights  |-> s.fights  \cup t.fights,
     players |-> s.players \cup t.players,
     events  |-> s.events  \cup t.events]

\* The storage a transaction leaves when it commits on top of s.
Apply(s, t) == Merge(CascadeDelete(s, t.deleted), t.ins)

\* A reports table without the unique index on report_code.
NoUniqueIndex(s) == TRUE

\* Report.report_code is unique=True (models.py:119).
ReportCodeUnique(s) ==
    \A r1, r2 \in s.reports : r1.report_code = r2.report_code => r1.id = r2.id

\* uq_player_report_actor (models.py:168).
PlayerUnique(s) ==
    \A p1, p2 \in s.players :
        (p1.report_id = p2.report_id /\ p1.wcl_actor_id = p2.wcl_actor_id)
            => p1.id = p2.id

ConstraintsHold(s) == ReportCodeUnique(s) /\ PlayerUnique(s)

\* ------------------------------------------------------- pure helpers

\* dict.get(k): the value for a present key, else None.
Lookup(m, k) == IF k \in DOMAIN m THEN m[k] ELSE None

\* dict.get(k, default), as in event.get("amount", 0) (main.py:243, 266).
Get(m, k, default) == IF k \in DOMAIN m THEN m[k] ELSE default

\* An assignment that binds every key of the dict to the new value.
PutOverAll(m, k, v) == [x \in DOMAIN m \cup {k} |-> v]

\* dict[k] = v: a later assignment for the same key replaces the earlier one.
Put(m, k, v) == (k :> v) @@ m

\* main.py:183-187 and 278-279: an external actor id is looked up only when
\* it is truthy; the result is the row id of the participant, or None.
Resolve(pl, x) == IF Truthy(x) THEN Lookup(pl, x) ELSE None

\* A normalized record, as handed to a bulk insert.  kind names the batch;
\* a field the schema of that kind does not have is None (event_type: "").
Record(kind, etype, fight_id, ts, ability, src, tgt, npc, kb) ==
    [kind |-> kind, event_type |-> etype, fight_id |-> fight_id,
     timestamp_ms |-> ts, ability_game_id |-> ability,
     source_player_id |-> src, target_player_id |-> tgt,
     target_npc_id |-> npc, killing_blow_player_id |-> kb, amount |-> None]

\* A *EventCreate(...) call of the event loop (main.py:201, 216, 235, 258,
\* 281): pydantic validates the fields, and a value that is not an integer
\* where the schema wants one raises ValidationError.  The record of kind
\* "error" stands for the exception.
Construct(rec) ==
    IF rec.timestamp_ms = Bad \/ rec.ability_game_id = Bad
    THEN <<[rec EXCEPT !.kind = "error"]>>
    ELSE <<rec>>

KindOrder == <<"cast", "buff", "damage", "heal", "death">>

\* main.py:211, the event types taken as buff events.
BuffTypes == {"applybuff", "removebuff", "applydebuff", "removedebuff",
              "applybuffstack", "removebuffstack"}

EmptyBatches ==
    [cast |-> <<>>, buff |-> <<>>, damage |-> <<>>, heal |-> <<>>, death |-> <<>>,
     err |-> FALSE]

\* A normalizer that keeps the NPC id beside a participant target.
KeepsNpc(target_player_id, target_npc_wcl_id) == target_npc_wcl_id

\* main.py:240, 263, 285: target_npc_id is the NPC id of the raw event only
\* if the target is not a participant.
TargetNpc(target_player_id, target_npc_wcl_id) ==
    IF ~Truthy(target_player_id) THEN target_npc_wcl_id ELSE None

\* A loop that checks the fight only before it looks at the kind.
ChecksFightOnly(db_fight, timestamp_ms, ability_game_id) == db_fight = None

\* main.py:177-180 and 191-193, the checks ahead of the kind dispatch: an
\* event whose fight is not in the lookup, or that has no timestamp or no
\* ability id, is skipped.
UniversalSkip(db_fight, timestamp_ms, ability_game_id) ==
    db_fight = None \/ timestamp_ms = None \/ ability_game_id = None

\* main.py:168-289, the body of the event loop for one raw event: the
\* records it appends (none or one).  fl and pl map external ids to row ids.
NormalizeEvent(event, fl, pl) ==
    LET db_fight  == Lookup(fl, event.fight)
        src       == Resolve(pl, event.sourceID)
        tgt       == Resolve(pl, event.targetID)
        npc       == event.targetNPCID
        npcOut    == TargetNpc(tgt, npc)
        kb        == Resolve(pl, event.killingBlowActor)
        ts        == event.timestamp
        ab        == event.abilityGameID
        ty        == event.type
    IN  IF UniversalSkip(db_fight, ts, ab) THEN <<>>
        ELSE IF ty = "cast" THEN
                 IF ~Truthy(src) THEN <<>>
                 ELSE Construct(Record("cast", "", db_fight, ts, ab, src, tgt, None, None))
        ELSE IF ty \in BuffTypes THEN
                 IF ~Truthy(tgt) THEN <<>>
                 ELSE Construct(Record("buff", ty, db_fight, ts, ab, src, tgt, None, None))
        ELSE IF ty = "damage" THEN
                 IF ~Truthy(src) THEN <<>>
                 ELSE IF ~Truthy(tgt) /\ ~Truthy(npc) THEN <<>>
                 ELSE Construct([Record("damage", "damage", db_fight, ts, ab, src, tgt,
                                        npcOut, None)
                                     EXCEPT !.amount = Get(event, "amount", 0)])
        ELSE IF ty = "heal" THEN
                 IF ~Truthy(src) THEN <<>>
                 ELSE IF ~Truthy(tgt) /\ ~Truthy(npc) THEN <<>>
                 ELSE Construct([Record("heal", "heal", db_fight, ts, ab, src, tgt,
                                        npcOut, None)
                                     EXCEPT !.amount = Get(event, "amount", 0)])
        ELSE IF ty = "death" THEN
                 IF ~Truthy(tgt) /\ ~Truthy(npc) THEN <<>>
                 ELSE Construct(Record("death", "death", db_fight, ts, ab, None, tgt, npcOut, kb))
        ELSE <<>>

\* main.py:161-291, the event loop: each record goes to the batch of its kind,
\* in the order of the raw events.  Nothing in the loop catches an exception:
\* one that is raised leaves the loop (err) for the except block.
RECURSIVE NormalizeAll(_, _, _, _)
NormalizeAll(events, fl, pl, acc) ==
    IF events = <<>> THEN acc
    ELSE LET out == NormalizeEvent(Head(events), fl, pl)
         IN  IF out = <<>> THEN NormalizeAll(Tail(events), fl, pl, acc)
             ELSE IF out[1].kind = "error" THEN [acc EXCEPT !.err = TRUE]
             ELSE NormalizeAll(Tail(events), fl, pl,
                               [acc EXCEPT ![out[1].kind] = Append(@, out[1])])

\* ------------------------------------------------------------- the state

VARIABLES
    db,       \* the committed storage
    tx,       \* tx[u]: the uncommitted work of unit u's session
    unit,     \* unit[u]: the position and the locals of unit u
    runs,     \* trigger requests accepted so far
    faults,   \* environment failures so far
    log,      \* one entry per terminated unit, in order of termination
    reply     \* what the last read or delete request was answered with

vars == <<db, tx, unit, runs, faults, log, reply>>

\* What a reader of the committed storage sees of report code c, by external
\* ids and field values: how many Report rows, and how many rows per fight id,
\* per (actor id, name) and per event (its references turned into external ids).
ExtFight(s, id) ==
    IF \E f \in s.fights : f.id = id
    THEN (CHOOSE f \in s.fights : f.id = id).wcl_fight_id ELSE None

ExtPlayer(s, id) ==
    IF \E p \in s.players : p.id = id
    THEN (CHOOSE p \in s.players : p.id = id).wcl_actor_id ELSE None

ExtEvent(s, e) ==
    [kind |-> e.kind, event_type |-> e.event_type,
     fight |-> ExtFight(s, e.fight_id), timestamp_ms |-> e.timestamp_ms,
     ability_game_id |-> e.ability_game_id,
     source |-> ExtPlayer(s, e.source_player_id),
     target |-> ExtPlayer(s, e.target_player_id),
     target_npc_id |-> e.target_npc_id,
     killing_blow |-> ExtPlayer(s, e.killing_blow_player_id),
     amount |-> e.amount]

ReportIds(s, c) == {r.id : r \in {x \in s.reports : x.report_code = c}}

View(s, c) ==
    LET rids == ReportIds(s, c)
        fs   == {f \in s.fights  : f.report_id \in rids}
        ps   == {p \in s.players : p.report_id \in rids}
        es   == {e \in s.events  : e.report_id \in rids}
    IN  [reports |-> Cardinality(rids),
         fights  |-> [k \in {f.wcl_fight_id : f \in fs} |->
                         Cardinality({f \in fs : f.wcl_fight_id = k})],
         players |-> [k \in {<<p.wcl_actor_id, p.name>> : p \in ps} |->
                         Cardinality({p \in ps : <<p.wcl_actor_id, p.name>> = k})],
         events  |-> [k \in {ExtEvent(s, e) : e \in es} |->
                         Cardinality({e \in es : ExtEvent(s, e) = k})]]

\* The storage unit u's session reads: committed rows and its own changes.
SessionView(u) == Apply(db, tx[u])

IdleUnit ==
    [pc |-> "idle", code |-> "", start |-> 0, nid |-> 0,
     fights |-> <<>>, actors |-> <<>>, events |-> <<>>,
     page |-> 0, pageFailed |-> FALSE,
     current_start_time |-> 0, requests |-> <<>>,
     db_report_id |-> None, fight_lookup |-> <<>>, player_lookup |-> <<>>,
     batches |-> EmptyBatches, bulk |-> 0,
     acts |-> <<>>, clean |-> TRUE, solo |-> TRUE, pre |-> View(EmptyStorage, "")]

\* A unit that has ended keeps nothing: its slot is free again.
DoneUnit(u) == IdleUnit

Active(u) == unit[u].pc # "idle"

\* The primary key of the k-th row unit u flushes.  The storage hands out
\* keys that are unique; which ones is of no concern to the code.
NewId(u, k) == unit[u].start * IdBlock + unit[u].nid + k

\* No read request has been answered yet.
NoReply == [op |-> "none"]

Init ==
    /\ db = EmptyStorage
    /\ tx = [u \in Units |-> EmptyTx]
    /\ unit = [u \in Units |-> IdleUnit]
    /\ runs = 0
    /\ faults = 0
    /\ log = <<>>
    /\ reply = NoReply

\* The entry a unit leaves when it terminates, with the committed storage s it
\* leaves behind: its steps, and what its session still held.  A run is clean
\* when neither the source nor the storage failed it.
LogEntry(u, outcome, cause, s) ==
    [code |-> unit[u].code, run |-> unit[u].start,
     outcome |-> outcome, cause |-> cause,
     clean |-> unit[u].clean /\ cause \in {"none", "data"},
     solo |-> unit[u].solo, pageFailed |-> unit[u].pageFailed,
     pre |-> unit[u].pre, view |-> View(s, unit[u].code),
     acts |-> IF outcome = "return" THEN unit[u].acts
              ELSE Append(unit[u].acts, outcome),
     pending |-> IF outcome = "return" THEN tx[u] ELSE EmptyTx]

\* An except block that commits what the session holds.
CommitsPending(u, cause) ==
    /\ db' = Apply(db, tx[u])
    /\ tx' = [tx EXCEPT ![u] = EmptyTx]
    /\ unit' = [unit EXCEPT ![u] = DoneUnit(u)]
    /\ log' = Append(log, LogEntry(u, "rollback", cause, Apply(db, tx[u])))
    /\ UNCHANGED runs

\* main.py:317-319, the except block: the session is rolled back and the
\* unit ends.  cause names what raised: the source ("source"), the storage
\* ("storage") or a validation error on the fetched data ("data").
Rollback(u, cause) ==
    /\ tx' = [tx EXCEPT ![u] = EmptyTx]
    /\ unit' = [unit EXCEPT ![u] = DoneUnit(u)]
    /\ log' = Append(log, LogEntry(u, "rollback", cause, db))
    /\ UNCHANGED <<db, runs>>

\* An environment failure: one more of the MaxFaults a behaviour may hold.
Fault == faults < MaxFaults /\ faults' = faults + 1

\* main.py:326-348, process_report_endpoint: the request is accepted and the
\* unit is scheduled with a session of its own (database.py:24-27); nothing
\* waits for a unit of the same code to end.  The slots are interchangeable:
\* a request takes the first free one.
Trigger(u, c) ==
    /\ ~Active(u)
    /\ UNCHANGED reply
    /\ \A w \in Units : w < u => Active(w)
    /\ runs < MaxRuns
    /\ runs' = runs + 1
    /\ unit' = [v \in Units |->
                  IF v = u
                  THEN [IdleUnit EXCEPT
                          !.pc = "guard", !.code = c, !.start = runs + 1,
                          !.solo = ~\E w \in Units \ {u} :
                                       Active(w) /\ unit[w].code = c,
                          !.pre = View(db, c)]
                  ELSE IF Active(v) /\ unit[v].code = c
                  THEN [unit[v] EXCEPT !.solo = FALSE]
                  ELSE unit[v]]
    /\ tx' = [tx EXCEPT ![u] = EmptyTx]
    /\ UNCHANGED <<db, faults, log>>

\* -------------------------------------------------- the ingestion unit

Step(u, pc) == unit[u].pc = pc

\* A guard that finds the report and deletes nothing.
GuardKeepsRows(existing) == {}

\* main.py:94-97 with crud.py:278-290: look the code up and, when a report
\* exists, mark it (and by cascade what it owns) for deletion.
GuardDeleted(existing) == {r.id : r \in existing}

\* A guard that goes on to the fetch with its deletion uncommitted.
GuardLeavesPending == "fetch"

\* main.py:98: the deletion is committed before anything else is done.
AfterGuardDelete == "guard_commit"

Guard(u) ==
    /\ Step(u, "guard")
    /\ UNCHANGED reply
    /\ LET existing == {r \in SessionView(u).reports : r.report_code = unit[u].code}
       IN  IF existing # {}
           THEN /\ tx' = [tx EXCEPT ![u].deleted = @ \cup GuardDeleted(existing)]
                /\ unit' = [unit EXCEPT ![u].pc = AfterGuardDelete,
                                        ![u].acts = Append(@, "delete")]
           ELSE /\ unit' = [unit EXCEPT ![u].pc = "fetch"]
                /\ UNCHANGED tx
    /\ UNCHANGED <<db, runs, faults, log>>

\* main.py:98, await db.commit(): the deletion becomes visible to everyone;
\* a commit that raises lands in the except block.
GuardCommit(u) ==
    /\ Step(u, "guard_commit")
    /\ UNCHANGED reply
    /\ \/ /\ ConstraintsHold(Apply(db, tx[u]))
          /\ db' = Apply(db, tx[u])
          /\ tx' = [tx EXCEPT ![u] = EmptyTx]
          /\ unit' = [unit EXCEPT ![u].pc = "fetch",
                                  ![u].acts = Append(@, "commit")]
          /\ UNCHANGED <<runs, faults, log>>
       \/ /\ Fault
          /\ Rollback(u, "storage")

\* wcl_service.py:220, the fight ids the events query is made for.
FightIds(fights) == SelectSeq(fights, LAMBDA id : id # None)

\* main.py:102-105 with wcl_service.py:127-226: the token and the metadata
\* request.  A token error raises; a failed metadata request or an answer
\* without a report makes fetch_report_data return None, and the unit returns.
FetchMeta(u) ==
    /\ Step(u, "fetch")
    /\ UNCHANGED reply
    /\ \/ /\ LET d == Source(unit[u].code)
             IN  unit' = [unit EXCEPT
                     ![u].fights = d.fights, ![u].actors = d.actors,
                     ![u].acts = Append(@, "fetch"),
                     ![u].pc = IF FightIds(d.fights) = <<>>
                               THEN "report" ELSE "fetch_page"]
          /\ UNCHANGED <<db, tx, runs, faults, log>>
       \/ /\ Fault
          /\ unit' = [unit EXCEPT ![u] = DoneUnit(u)]
          /\ log' = Append(log, LogEntry(u, "return", "source", db))
          /\ UNCHANGED <<db, tx, runs>>
       \/ /\ Fault
          /\ Rollback(u, "source")

\* The nextPageTimestamp the source gives with page k of pages: where the
\* next page starts, null (None) with the last page.
NextPageTimestamp(pages, k) ==
    IF k < Len(pages) THEN pages[k + 1][1].timestamp ELSE None

\* The page the source answers an events request with: the first one for a
\* start offset of 0, else the one the offset was given for.
PageAt(pages, start) ==
    IF start = 0 THEN 1
    ELSE IF \E k \in 2..Len(pages) : NextPageTimestamp(pages, k - 1) = start
    THEN CHOOSE k \in 2..Len(pages) : NextPageTimestamp(pages, k - 1) = start
    ELSE Len(pages) + 1

\* A loop that takes every answer for the last page.
StopAfterPage(next_page_timestamp) == None

\* wcl_service.py:269: the start offset of the next request is the
\* nextPageTimestamp of the page just read; None ends the loop.
NextStart(next_page_timestamp) == next_page_timestamp

\* wcl_service.py:228-280, one pass of the pagination loop, which starts at
\* offset 0 and runs while current_start_time is not None.  A page that
\* answers is appended and its nextPageTimestamp is the next start offset; a
\* page that fails ends the loop and the events fetched so far are kept
\* (wcl_service.py:271-280), the unit going on with them.
FetchPage(u) ==
    /\ Step(u, "fetch_page")
    /\ UNCHANGED reply
    /\ LET pages == Source(unit[u].code).pages
           start == unit[u].current_start_time
           k     == PageAt(pages, start)
           got   == IF k <= Len(pages) THEN pages[k] ELSE <<>>
           next  == NextStart(NextPageTimestamp(pages, k))
       IN  \/ /\ unit' = [unit EXCEPT
                     ![u].events = @ \o got, ![u].page = @ + 1,
                     ![u].requests = Append(@, start),
                     ![u].current_start_time = next,
                     ![u].pc = IF next = None THEN "report" ELSE "fetch_page"]
              /\ UNCHANGED faults
           \/ /\ Fault
              /\ unit' = [unit EXCEPT ![u].pageFailed = TRUE, ![u].clean = FALSE,
                                      ![u].requests = Append(@, start),
                                      ![u].current_start_time = None,
                                      ![u].pc = "report"]
    /\ UNCHANGED <<db, tx, runs, log>>

\* main.py:116-129 with crud.py:15-27: the report is looked up again and
\* created when the session does not see one.  create_report builds the row
\* from ReportCreate.model_dump() and flushes it; what the mapper and the
\* storage make of the row is theirs to decide, so the call may raise.
CreateReport(u) ==
    /\ Step(u, "report")
    /\ UNCHANGED reply
    /\ LET existing == {r \in SessionView(u).reports : r.report_code = unit[u].code}
       IN  \/ /\ existing # {}
              /\ unit' = [unit EXCEPT ![u].pc = "fights",
                            ![u].db_report_id = (CHOOSE r \in existing : TRUE).id]
              /\ UNCHANGED <<db, tx, runs, faults, log>>
           \/ /\ existing = {}
              /\ tx' = [tx EXCEPT ![u].ins.reports =
                          @ \cup {[id |-> NewId(u, 0), report_code |-> unit[u].code]}]
              /\ unit' = [unit EXCEPT ![u].pc = "fights", ![u].nid = @ + 1,
                                      ![u].db_report_id = NewId(u, 0),
                                      ![u].acts = Append(@, "insert_report")]
              /\ UNCHANGED <<db, runs, faults, log>>
           \/ /\ existing = {}
              /\ Fault
              /\ Rollback(u, "storage")

\* main.py:133-137 with crud.py:50-61, the fight loop: every entry becomes
\* a new Fight row and the lookup keeps the last row made for an external id.
\* FightCreate needs wcl_fight_id (schemas.py:151): an entry without it raises.
RECURSIVE FightLoop(_, _, _, _, _)
FightLoop(fights, rid, nid, rows, fl) ==
    IF fights = <<>>
    THEN [err |-> FALSE, rows |-> rows, lookup |-> fl, nid |-> nid]
    ELSE IF Head(fights) = None
    THEN [err |-> TRUE, rows |-> rows, lookup |-> fl, nid |-> nid]
    ELSE FightLoop(Tail(fights), rid, nid + 1,
                   rows \cup {[id |-> nid, report_id |-> rid,
                               wcl_fight_id |-> Head(fights),
                               name |-> FightName(Head(fights))]},
                   Put(fl, Head(fights), nid))

\* A lookup that never finds a participant.
FindsNoPlayer(players, report_id, wcl_actor_id) == {}

\* crud.py:32-34, the SELECT of get_or_create_player: the participants the
\* session sees for the report and the external actor id.
FindPlayer(players, report_id, wcl_actor_id) ==
    {p \in players : p.report_id = report_id /\ p.wcl_actor_id = wcl_actor_id}

\* main.py:143-157 with crud.py:29-48, the roster loop: get_or_create_player
\* returns the row the session sees for (report, actor id) or makes one.
\* PlayerCreate needs wcl_actor_id (schemas.py:181): an entry without it raises.
RECURSIVE PlayerLoop(_, _, _, _, _, _)
PlayerLoop(actors, rid, nid, rows, pl, seen) ==
    IF actors = <<>>
    THEN [err |-> FALSE, rows |-> rows, lookup |-> pl, nid |-> nid]
    ELSE LET a     == Head(actors)
             found == FindPlayer(seen \cup rows, rid, a.id)
         IN  IF a.id = None
             THEN [err |-> TRUE, rows |-> rows, lookup |-> pl, nid |-> nid]
             ELSE IF found # {}
             THEN PlayerLoop(Tail(actors), rid, nid, rows,
                             Put(pl, a.id, (CHOOSE p \in found : TRUE).id), seen)
             ELSE PlayerLoop(Tail(actors), rid, nid + 1,
                             rows \cup {[id |-> nid, report_id |-> rid,
                                         wcl_actor_id |-> a.id, name |-> a.name]},
                             Put(pl, a.id, nid), seen)

CreateFights(u) ==
    /\ Step(u, "fights")
    /\ UNCHANGED reply
    /\ LET r == FightLoop(unit[u].fights, unit[u].db_report_id, NewId(u, 0), {}, <<>>)
       IN  \/ /\ ~r.err
              /\ tx' = [tx EXCEPT ![u].ins.fights = @ \cup r.rows]
              /\ unit' = [unit EXCEPT ![u].pc = "players",
                                      ![u].nid = @ + Cardinality(r.rows),
                                      ![u].fight_lookup = r.lookup,
                                      ![u].acts = Append(@, "resolve_fights")]
              /\ UNCHANGED <<db, runs, faults, log>>
           \/ /\ r.err
              /\ Rollback(u, "data")
              /\ UNCHANGED faults
           \/ /\ ~r.err /\ r.rows # {}
              /\ Fault
              /\ Rollback(u, "storage")

\* main.py:159-291, the event loop; it reads the two lookups and writes the
\* five batches, and touches neither the session nor the source.
Normalize(events, fl, pl) == NormalizeAll(events, fl, pl, EmptyBatches)

\* The roster loop and, with no await in between, the event loop.
CreatePlayers(u) ==
    /\ Step(u, "players")
    /\ UNCHANGED reply
    /\ LET r == PlayerLoop(unit[u].actors, unit[u].db_report_id, NewId(u, 0), {}, <<>>,
                           SessionView(u).players)
           b == Normalize(unit[u].events, unit[u].fight_lookup, r.lookup)
       IN  \/ /\ ~r.err /\ ~b.err
              /\ tx' = [tx EXCEPT ![u].ins.players = @ \cup r.rows]
              /\ unit' = [unit EXCEPT ![u].pc = "bulk", ![u].bulk = 1,
                            ![u].nid = @ + Cardinality(r.rows),
                            ![u].player_lookup = r.lookup,
                            ![u].batches = b,
                            ![u].acts = @ \o <<"resolve_players", "normalize">>]
              /\ UNCHANGED <<db, runs, faults, log>>
           \/ /\ r.err \/ b.err
              /\ Rollback(u, "data")
              /\ UNCHANGED faults
           \/ /\ ~r.err /\ r.rows # {}
              /\ Fault
              /\ Rollback(u, "storage")

\* crud.py:85-190, a bulk insert: every record of the batch becomes a row of
\* the report.
BulkRows(batch, rid, nid) ==
    {[id |-> nid + i - 1, report_id |-> rid, kind |-> batch[i].kind,
      event_type |-> batch[i].event_type, fight_id |-> batch[i].fight_id,
      timestamp_ms |-> batch[i].timestamp_ms,
      ability_game_id |-> batch[i].ability_game_id,
      source_player_id |-> batch[i].source_player_id,
      target_player_id |-> batch[i].target_player_id,
      target_npc_id |-> batch[i].target_npc_id,
      killing_blow_player_id |-> batch[i].killing_blow_player_id,
      amount |-> batch[i].amount] :
        i \in 1..Len(batch)}

\* main.py:295, 299, 303, 307, 311: an empty batch is not sent.  The index of
\* the first batch at or after k that is sent, Len(KindOrder) + 1 if none is.
RECURSIVE NextBatch(_, _)
NextBatch(batches, k) ==
    IF k > Len(KindOrder) THEN k
    ELSE IF batches[KindOrder[k]] # <<>> THEN k
    ELSE NextBatch(batches, k + 1)

\* main.py:293-312, the bulk calls in the order cast, buff, damage, heal,
\* death: one step per call that is made.  A bulk insert that raises rolls
\* back and raises again (crud.py:100-103), into the except block.
BulkInsert(u) ==
    /\ Step(u, "bulk")
    /\ UNCHANGED reply
    /\ LET k == NextBatch(unit[u].batches, unit[u].bulk)
       IN  \/ /\ k > Len(KindOrder)
              /\ unit' = [unit EXCEPT ![u].bulk = k, ![u].pc = "commit"]
              /\ UNCHANGED <<db, tx, runs, faults, log>>
           \/ /\ k <= Len(KindOrder)
              /\ LET batch == unit[u].batches[KindOrder[k]]
                 IN  /\ tx' = [tx EXCEPT ![u].ins.events =
                                 @ \cup BulkRows(batch, unit[u].db_report_id, NewId(u, 0))]
                     /\ unit' = [unit EXCEPT ![u].bulk = k + 1,
                                             ![u].nid = @ + Len(batch),
                                             ![u].acts = Append(@, "bulk")]
              /\ UNCHANGED <<db, runs, faults, log>>
           \/ /\ k <= Len(KindOrder)
              /\ Fault
              /\ Rollback(u, "storage")

\* main.py:314-315, the commit of the report; a commit the storage refuses
\* (a constraint of models.py) or that fails raises into the except block.
Commit(u) ==
    /\ Step(u, "commit")
    /\ UNCHANGED reply
    /\ \/ /\ ConstraintsHold(Apply(db, tx[u]))
          /\ db' = Apply(db, tx[u])
          /\ tx' = [tx EXCEPT ![u] = EmptyTx]
          /\ unit' = [unit EXCEPT ![u] = DoneUnit(u)]
          /\ log' = Append(log, LogEntry(u, "commit", "none",
                                         Apply(db, tx[u])))
          /\ UNCHANGED <<runs, faults>>
       \/ /\ ~ConstraintsHold(Apply(db, tx[u]))
          /\ Rollback(u, "storage")
          /\ UNCHANGED faults
       \/ /\ ConstraintsHold(Apply(db, tx[u]))
          /\ Fault
          /\ Rollback(u, "storage")

UnitStep(u) ==
    \/ Guard(u)
    \/ GuardCommit(u)
    \/ FetchMeta(u)
    \/ FetchPage(u)
    \/ CreateReport(u)
    \/ CreateFights(u)
    \/ CreatePlayers(u)
    \/ BulkInsert(u)
    \/ Commit(u)

Next ==
    \/ \E u \in Units, c \in Codes : Trigger(u, c)
    \/ \E u \in Units : UnitStep(u)

Spec == Init /\ [][Next]_vars

\* The event loop runs a started unit on, and the source answers every
\* request: a unit that can take a step eventually takes one.
FairSpec == Spec /\ \A u \in Units : WF_vars(UnitStep(u))

\* One unit at a time, on the report codes whose data exercise the resolver
\* and the normalizer: a code is ingested and, when the unit has ended, a
\* code is ingested again.
PassNext ==
    \/ \E c \in PassCodes : Trigger(1, c)
    \/ UnitStep(1)

PassSpec == Init /\ [][PassNext]_vars

\* ------------------------------------------- passes over any event list

\* The report code of a report whose events are whatever the source sends.
DrawnCodes == {"r"}

\* The event types the source sends: the twelve the claims name and one the
\* normalizer does not know.
EventTypes ==
    {"cast", "applybuff", "removebuff", "applybuffstack", "removebuffstack",
     "applydebuff", "removedebuff", "applydebuffstack", "removedebuffstack",
     "damage", "heal", "death", "summon"}

\* The roster of the report: the source numbers its actors from 0.
DrawnRoster == <<Actor(0, "Z"), Actor(1, "A"), Actor(2, "B")>>

\* One raw event of any type, with or without timestamp and ability id, in
\* the fight of the report or in one that is not listed, its source, target
\* and killing-blow actor absent, in the roster or unknown (9), with or
\* without an NPC target.
SingleEvents ==
    {RawEvent(ty, ts, f, ab, src, tgt, npc, kb) :
        ty \in EventTypes, ts \in {None, 10}, f \in {1, 3}, ab \in {None, 100},
        src \in {None, 0, 1, 9}, tgt \in {None, 0, 2, 9}, npc \in {None, 7},
        kb \in {None, 1}}

\* The events the longer lists are made of: a cast, a damage event, a heal
\* without a target and a damage event whose timestamp is not an integer.
ListEvents ==
    {RawEvent("cast", 10, 1, 100, 1, None, None, None),
     RawEvent("damage", 12, 1, 102, 1, 2, 7, None),
     RawEvent("heal", 13, 1, 103, 2, None, None, None),
     RawEvent("damage", Bad, 1, 102, 1, None, 7, None)}

\* The event lists of the model: every single event, and every list of two
\* or three of the list events, in every order.
DrawnEvents ==
    {<<e>> : e \in SingleEvents}
        \cup (ListEvents \X ListEvents)
        \cup (ListEvents \X ListEvents \X ListEvents)

\* wcl_service.py:127-280, fetch_report_data for a drawn code: the source
\* answers with one fight, the roster and an event list of its choosing.
FetchDrawn(u) ==
    /\ Step(u, "fetch")
    /\ UNCHANGED reply
    /\ unit[u].code \in DrawnCodes
    /\ \E events \in DrawnEvents :
          unit' = [unit EXCEPT ![u].fights = <<1>>, ![u].actors = DrawnRoster,
                               ![u].events = events,
                               ![u].acts = Append(@, "fetch"),
                               ![u].pc = "report"]
    /\ UNCHANGED <<db, tx, runs, faults, log>>

\* One unit at a time on a drawn code, up to the end of the event loop: the
\* pass as far as the records it hands to the bulk inserts.
NormNext ==
    \/ \E c \in DrawnCodes : Trigger(1, c)
    \/ Guard(1)
    \/ FetchDrawn(1)
    \/ CreateReport(1)
    \/ CreateFights(1)
    \/ CreatePlayers(1)

NormSpec == Init /\ [][NormNext]_vars

\* ------------------------------------------------------ the read requests

\* str.strip().lower() on the pieces of the event_type parameter that the
\* requests of the model are made with.
StripLower(piece) ==
    CASE piece = " Cast"  -> "cast"
      [] piece = "DAMAGE" -> "damage"
      [] piece = " "      -> ""
      [] OTHER            -> piece

\* main.py:404-408: the pieces between the commas are stripped and lowered,
\* a piece that strips to nothing is dropped; no piece left (or no parameter)
\* is None, which the empty list stands for.
ParseEventTypes(pieces) ==
    LET kept == SelectSeq(pieces, LAMBDA et : StripLower(et) # "")
    IN  [i \in 1..Len(kept) |-> StripLower(kept[i])]

\* crud.py:249: no list (or an empty one) fetches every kind of the map, in
\* the order of its keys.
TypesToFetch(event_types) ==
    IF event_types # <<>> THEN event_types ELSE KindOrder

\* A result that is left in the order the kinds were fetched in.
FetchOrder(events) == events

\* crud.py:270, all_events.sort(key=timestamp_ms): a stable sort, an event
\* going behind the events before it that are not later than it.
RECURSIVE SortByTimestamp(_)
SortByTimestamp(events) ==
    IF events = <<>> THEN <<>>
    ELSE LET n      == Len(events)
             last   == events[n]
             sorted == SortByTimestamp(SubSeq(events, 1, n - 1))
             before == SelectSeq(sorted, LAMBDA e : e.timestamp_ms <= last.timestamp_ms)
             after  == SelectSeq(sorted, LAMBDA e : e.timestamp_ms > last.timestamp_ms)
         IN  before \o <<last>> \o after

\* The orders a SELECT without ORDER BY may give the rows in.
Orders(rows) ==
    {o \in [1..Cardinality(rows) -> rows] :
        \A i, j \in 1..Cardinality(rows) : i # j => o[i] # o[j]}

\* crud.py:251-266, the loop over types_to_fetch: the name is stripped and
\* lowered; for a name of the map the rows of that table with the fight id
\* are appended (answer[k] is what the k-th query returns), a name that is
\* not in the map appends nothing.
RECURSIVE FetchAll(_, _, _)
FetchAll(types, answer, k) ==
    IF k > Len(types) THEN <<>>
    ELSE (IF \E i \in 1..Len(KindOrder) : KindOrder[i] = StripLower(types[k])
          THEN answer[k] ELSE <<>>) \o FetchAll(types, answer, k + 1)

\* crud.py:231-276, get_events_for_fight, given the answers of its queries.
get_events_for_fight(event_types, answer) ==
    SortByTimestamp(FetchAll(TypesToFetch(event_types), answer, 1))

\* The rows of kind name that storage s holds for the fight row fight_id.
EventsOf(s, fight_id, name) ==
    {e \in s.events : e.fight_id = fight_id /\ e.kind = name}

\* What the queries of the loop may return, from the k-th on: for each entry
\* of types the rows of its kind and fight, in one of their orders.
RECURSIVE Answers(_, _, _, _)
Answers(s, fight_id, types, k) ==
    IF k > Len(types) THEN {<<>>}
    ELSE {<<o>> \o rest :
            o \in Orders(EventsOf(s, fight_id, StripLower(types[k]))),
            rest \in Answers(s, fight_id, types, k + 1)}

\* main.py:380-414, GET /reports/{code}/fights/{id}/events/: 404 when the
\* fight is not found (crud.py:213-229), else the events of the fight.  The
\* request reads the committed storage and changes nothing.
GetFightEvents(c, wcl_fight_id, pieces) ==
    LET found == {f \in db.fights :
                     /\ f.wcl_fight_id = wcl_fight_id
                     /\ \E r \in db.reports :
                            r.id = f.report_id /\ r.report_code = c}
        types == TypesToFetch(ParseEventTypes(pieces))
    IN  /\ \/ /\ found = {}
              /\ reply' = [op |-> "events", status |-> 404]
           \/ \E fight \in found :
              \E answer \in Answers(db, fight.id, types, 1) :
                 /\ reply' = [op |-> "events", status |-> 200,
                              event_types |-> ParseEventTypes(pieces),
                              stored |-> {e \in db.events : e.fight_id = fight.id},
                              result |-> get_events_for_fight(ParseEventTypes(pieces),
                                                              answer)]
        /\ UNCHANGED <<db, tx, unit, runs, faults, log>>

\* An aggregation that answers with a mapping of no group at all.
AggregateNothing(s, report_code, groups, boss_names) == <<>>

\* crud.py:336-348, aggregate_stats_by_group: the function logs a warning
\* and returns every group name of the request with an empty list.  It
\* issues no statement: the storage s, the report code and the fight-name
\* filter have no part in the result.
aggregate_stats_by_group(s, report_code, groups, boss_names) ==
    [group_name \in DOMAIN groups |-> <<>>]

\* main.py:417-445, POST /reports/{code}/aggregate-stats: the groups of the
\* body and the boss_names parameter (no parameter: the empty list) go to
\* aggregate_stats_by_group and its result is the response.
GetAggregatedStats(c, groups, boss_names) ==
    /\ reply' = [op |-> "aggregate", status |-> 200, code |-> c,
                 groups |-> groups, boss_names |-> boss_names, storage |-> db,
                 result |-> aggregate_stats_by_group(db, c, groups, boss_names)]
    /\ UNCHANGED <<db, tx, unit, runs, faults, log>>

\* The group definitions the requests are made with: no group, a group
\* without names, the group of A and B, and two groups that share A, one with
\* a name that is in no roster.
GroupDefinitions ==
    {<<>>,
     [g \in {"g1"} |-> <<>>],
     [g \in {"g1"} |-> <<"A", "B">>],
     [g \in {"g1", "g2"} |-> IF g = "g1" THEN <<"A">> ELSE <<"Z", "A">>]}

\* The boss_names parameters the requests are made with.
BossNameParams == {<<>>, <<"Boss2">>, <<"boss1">>, <<"Boss2", "Boss1">>}

\* The event_type parameters the requests are made with, in pieces.
EventTypeParams ==
    {<<>>, <<"damage">>, <<" Cast", "DAMAGE">>, <<"heal", "bogus">>,
     <<"damage", "damage">>, <<" ">>, <<"death", "cast">>}

\* One unit at a time on the report codes of the read requests, and read
\* requests at any moment in between.
ReadNext ==
    \/ \E c \in ReadCodes : Trigger(1, c)
    \/ UnitStep(1)
    \/ \E c \in ReadCodes, f \in 1..2, pieces \in EventTypeParams :
          GetFightEvents(c, f, pieces)
    \/ \E c \in ReadCodes, groups \in GroupDefinitions, boss_names \in BossNameParams :
          GetAggregatedStats(c, groups, boss_names)

ReadSpec == Init /\ [][ReadNext]_vars

\* ------------------------------------------------- the explicit deletion

\* crud.py:307-327, the three DELETE statements of delete_report_by_code:
\* the Player rows and the Fight rows with the report id, then the Report
\* row.  They are statements, not session deletes of loaded objects, so the
\* cascades of models.py:127-135 take no part, and no statement names an
\* event table.
DeleteStatements(s, report_id) ==
    [reports |-> {r \in s.reports : r.id # report_id},
     fights  |-> {f \in s.fights  : f.report_id # report_id},
     players |-> {p \in s.players : p.report_id # report_id},
     events  |-> s.events]

\* The event rows that refer to the report or to one of its fights or
\* participants (the ForeignKey columns of models.py:12-105).
Referring(s, report_id) ==
    LET fs == {f.id : f \in {x \in s.fights  : x.report_id = report_id}}
        ps == {p.id : p \in {x \in s.players : x.report_id = report_id}}
    IN  {e \in s.events :
            \/ e.report_id = report_id
            \/ e.fight_id \in fs
            \/ {e.source_player_id, e.target_player_id,
                 e.killing_blow_player_id} \cap ps # {}}

\* What a call of delete_report_by_code for code c came to: the value it
\* returned, the report id it found, and the committed storage before and
\* after it.
DeleteReply(c, result, report_ids, after) ==
    [op |-> "delete", code |-> c, result |-> result,
     report_ids |-> report_ids, before |-> db, after |-> after]

\* crud.py:292-334, delete_report_by_code, in a session of its own.  No
\* report of the code: False.  Else the statements are run and committed:
\* True.  Whether the storage enforces the foreign keys of the event rows is
\* a matter of the engine and its settings (database.py:9-12 sets none): an
\* engine that does refuses a statement that would orphan an event row, and
\* that or any other storage error is caught, rolled back and answered False.
DeleteReportByCode(c) ==
    /\ \/ /\ ReportIds(db, c) = {}
          /\ reply' = DeleteReply(c, FALSE, {}, db)
          /\ UNCHANGED <<db, faults>>
       \/ \E report_id \in ReportIds(db, c) :
             \/ /\ db' = DeleteStatements(db, report_id)
                /\ reply' = DeleteReply(c, TRUE, {report_id},
                                        DeleteStatements(db, report_id))
                /\ UNCHANGED faults
             \/ /\ Referring(db, report_id) # {}
                /\ reply' = DeleteReply(c, FALSE, {report_id}, db)
                /\ UNCHANGED <<db, faults>>
             \/ /\ Fault
                /\ reply' = DeleteReply(c, FALSE, {report_id}, db)
                /\ UNCHANGED db
    /\ UNCHANGED <<tx, unit, runs, log>>

\* The report codes the deletions are asked for.
DeleteCodes == {"a", "b"}

\* One unit at a time on the codes of the deletions, and deletions at any
\* moment in between.
DeleteNext ==
    \/ \E c \in DeleteCodes : Trigger(1, c)
    \/ UnitStep(1)
    \/ \E c \in DeleteCodes : DeleteReportByCode(c)

DeleteSpec == Init /\ [][DeleteNext]_vars

\* ============================================================ the claims

\* The steps of a unit that act on the storage.
StorageActions == {"delete", "commit", "insert_report", "resolve_fights",
                   "resolve_players", "bulk", "rollback"}

StorageActs(acts) == SelectSeq(acts, LAMBDA a : a \in StorageActions)

Count(acts, a) == Cardinality({i \in 1..Len(acts) : acts[i] = a})

\* The positions of step a in acts.
At(acts, a) == {i \in 1..Len(acts) : acts[i] = a}

\* Entries i < j of the log are two runs of one report code with no run of
\* that code ending between them, neither overlapping another unit of the code
\* and neither failed by the source or the storage.
InSequence(i, j) ==
    /\ i < j
    /\ log[i].code = log[j].code
    /\ \A k \in (i + 1)..(j - 1) : log[k].code # log[i].code
    /\ log[i].clean /\ log[j].clean
    /\ log[i].solo /\ log[j].solo

\* The rows of storage s that run number n flushed.
RowsOfRun(s, n) ==
    {r.id : r \in s.reports \cup s.fights \cup s.players \cup s.events}
        \cap (n * IdBlock)..(n * IdBlock + IdBlock - 1)

\* C1: running the ingestion unit twice in sequence on the same source data
\* leaves, for the report code, the same Report, Fights, Participants and
\* Events (by external ids and field values, duplicates counted) as running it
\* once, and no row of the first run is left in storage.
C1_IdempotentReingestion ==
    \A i, j \in 1..Len(log) :
        InSequence(i, j) =>
            /\ log[j].view = log[i].view
            /\ RowsOfRun(db, log[i].run) = {}

\* C1 witness: a second run of a code committed after a first one committed a
\* report with fights, participants and events.
C1_Witness ==
    \E i, j \in 1..Len(log) :
        /\ InSequence(i, j)
        /\ log[i].outcome = "commit" /\ log[j].outcome = "commit"
        /\ log[i].view.reports = 1
        /\ DOMAIN log[i].view.events # {}
        /\ DOMAIN log[i].view.fights # {}

\* C2 (as claimed): a re-ingestion of a persisted code that fails with a
\* storage error leaves the committed data of the code as it was before the
\* re-ingestion started.
C2_FailedReingestionRestores ==
    \A i \in 1..Len(log) :
        (/\ log[i].outcome = "rollback" /\ log[i].cause = "storage"
         /\ log[i].solo /\ log[i].pre.reports = 1)
            => log[i].view = log[i].pre

\* C3 (as claimed): a unit whose metadata fetch fails or answers without a
\* report leaves the committed data of the code as it was.
C3_SourceErrorNoChange ==
    \A i \in 1..Len(log) :
        (log[i].cause = "source" /\ log[i].solo) => log[i].view = log[i].pre

\* C4 (as claimed): a unit one of whose event pages failed commits nothing.
C4_PageFailureAborts ==
    \A i \in 1..Len(log) : log[i].pageFailed => log[i].outcome # "commit"

\* C5 (as claimed): a unit commits at most once, and a commit is the last
\* thing it does to the storage.
C5_SingleCommitLast ==
    /\ \A u \in Units :
          LET a == StorageActs(unit[u].acts)
          IN  /\ Count(a, "commit") <= 1
              /\ \A i \in At(a, "commit") : i = Len(a)
    /\ \A k \in 1..Len(log) :
          LET a == StorageActs(log[k].acts)
          IN  /\ Count(a, "commit") <= 1
              /\ \A i \in At(a, "commit") : i = Len(a)

\* C6 (as claimed): in a unit the fetch, the identity resolution and the
\* normalization come before the guard deletion, the guard deletion before
\* the first bulk write, and the bulk writes before the commit.
C6_StepOrder ==
    \A u \in Units :
        LET a == unit[u].acts
        IN  /\ \A d \in At(a, "delete") :
                  /\ \E i \in At(a, "fetch") : i < d
                  /\ \E i \in At(a, "resolve_fights") : i < d
                  /\ \E i \in At(a, "resolve_players") : i < d
                  /\ \E i \in At(a, "normalize") : i < d
                  /\ \A i \in At(a, "bulk") : d < i
            /\ \A b \in At(a, "bulk") : \A c \in At(a, "commit") : b < c

\* C7 (as claimed): of two units for one report code, the one started second
\* does nothing to the storage while the first is still running.
C7_PerCodeSerialization ==
    \A u, v \in Units :
        (/\ Active(u) /\ Active(v)
         /\ unit[u].code = unit[v].code
         /\ unit[u].start < unit[v].start)
            => StorageActs(unit[v].acts) = <<>>

\* C8: the committed storage never holds two Report rows for one report code,
\* whatever the interleaving of the units.
C8_OneReportPerCode ==
    \A c \in Codes : Cardinality(ReportIds(db, c)) <= 1

\* C8 witness: a report of a code is committed while another unit holds an
\* uncommitted Report row for the same code.
C8_Witness ==
    \E u \in Units :
        /\ Active(u)
        /\ tx[u].ins.reports # {}
        /\ ReportIds(db, unit[u].code) # {}
        /\ ReportIds(db, unit[u].code) \cap tx[u].deleted = {}

\* C9 (as claimed): while a persisted code is re-ingested (by one unit, up
\* to the commit that ends it) the committed data of the code is what it was
\* before the re-ingestion.
C9_ReaderSeesPreOrPost ==
    \A u \in Units :
        (Active(u) /\ unit[u].solo /\ unit[u].pre.reports = 1)
            => View(db, unit[u].code) = unit[u].pre

\* How a terminated unit may have ended: by the commit of the report, by a
\* rollback, or by returning with nothing uncommitted in its session.
EndedBy(e) ==
    \/ e.outcome \in {"commit", "rollback"} /\ e.acts[Len(e.acts)] = e.outcome
    \/ e.outcome = "return" /\ e.pending = EmptyTx

\* C10 (as claimed): a unit that ended did something to the storage, and the
\* last thing was a commit or a rollback.
C10_EndsByCommitOrRollback ==
    \A i \in 1..Len(log) :
        LET a == StorageActs(log[i].acts)
        IN  a # <<>> /\ a[Len(a)] \in {"commit", "rollback"}

\* C10 (amended): every started unit terminates, and it ends by the commit of
\* the report, by a rollback, or, when fetch_report_data returns nothing, by
\* returning with no uncommitted change in its session.
C10_RunsToCompletion ==
    /\ [](\A i \in 1..Len(log) : EndedBy(log[i]))
    /\ \A u \in Units : (Active(u) ~> ~Active(u))

\* C10 witness: one unit has ended by returning and one by committing.
C10_Witness ==
    /\ \E i \in 1..Len(log) : log[i].outcome = "return"
    /\ \E i \in 1..Len(log) : log[i].outcome = "commit"

\* The external actor ids of the roster unit u fetched.
RosterIds(u) == {unit[u].actors[i].id : i \in 1..Len(unit[u].actors)}

\* The external actor ids the raw events of unit u refer to, as source, as
\* target or as killing-blow actor.
ReferencedIds(u) ==
    UNION {{unit[u].events[i].sourceID, unit[u].events[i].targetID,
            unit[u].events[i].killingBlowActor} : i \in 1..Len(unit[u].events)}

\* The unit has resolved its roster and normalized its events.
Resolved(u) == unit[u].pc \in {"bulk", "commit"}

\* C11: within one ingestion pass, two references (as source, target or
\* killing-blow actor, in any two raw events) to the same external actor id of
\* the roster resolve to the same internal id and references to different ids
\* resolve to different internal ids; the internal id is that of the one
\* Participant row the report has for the external id.
C11_IdentityStability ==
    \A u \in Units :
        Resolved(u) =>
            LET pl   == unit[u].player_lookup
                refs == ReferencedIds(u) \cap RosterIds(u)
                rows == {p \in SessionView(u).players :
                            p.report_id = unit[u].db_report_id}
            IN  /\ \A x, y \in refs :
                      (Resolve(pl, x) = Resolve(pl, y)) <=> (x = y)
                /\ \A x \in refs :
                      Truthy(x) =>
                          {p.id : p \in {q \in rows : q.wcl_actor_id = x}}
                              = {Resolve(pl, x)}

\* C11 witness: a pass whose roster lists an actor twice and whose events
\* refer to one actor as source, as target and as killing-blow actor and to
\* another actor as well.
C11_Witness ==
    \E u \in Units :
        /\ Resolved(u)
        /\ Cardinality(RosterIds(u)) < Len(unit[u].actors)
        /\ \E i, j, k \in 1..Len(unit[u].events) :
              /\ unit[u].events[i].sourceID \in RosterIds(u)
              /\ unit[u].events[j].targetID = unit[u].events[i].sourceID
              /\ unit[u].events[k].killingBlowActor = unit[u].events[i].sourceID
        /\ Cardinality(ReferencedIds(u) \cap RosterIds(u)) >= 2

\* The raw events of a report code, all pages in page order.
RECURSIVE Concat(_)
Concat(pages) == IF pages = <<>> THEN <<>> ELSE Head(pages) \o Concat(Tail(pages))

\* The eight sub-kinds of a buff/debuff transition the specification names.
TransitionTypes ==
    {"applybuff", "removebuff", "applybuffstack", "removebuffstack",
     "applydebuff", "removedebuff", "applydebuffstack", "removedebuffstack"}

\* The kind the specification gives a raw event, "" when it gives none.
KindOf(e) ==
    IF e.type \in TransitionTypes THEN "buff"
    ELSE IF e.type \in {"cast", "damage", "heal", "death"} THEN e.type
    ELSE ""

\* As the specification has it: the raw event e of report code c is well
\* formed, that is, its fight and the participants its kind requires resolve
\* and it carries what every event carries.
WellFormed(c, e) ==
    LET fights == {Source(c).fights[i] : i \in 1..Len(Source(c).fights)} \ {None}
        roster == {Source(c).actors[i].id : i \in 1..Len(Source(c).actors)} \ {None}
        hasSrc == e.sourceID \in roster
        hasTgt == e.targetID \in roster \/ e.targetNPCID # None
    IN  /\ e.fight \in fights
        /\ e.timestamp # None /\ e.abilityGameID # None
        /\ CASE KindOf(e) = "cast"   -> hasSrc
             [] KindOf(e) = "buff"   -> e.targetID \in roster
             [] KindOf(e) = "damage" -> hasSrc /\ hasTgt
             [] KindOf(e) = "heal"   -> hasSrc /\ hasTgt
             [] KindOf(e) = "death"  -> hasTgt
             [] OTHER -> FALSE

\* The persisted events, in a reader's view v of a report, that come from the
\* raw event e: same fight, timestamp and ability.
PersistedFrom(v, e) ==
    {k \in DOMAIN v.events :
        /\ k.fight = e.fight
        /\ k.timestamp_ms = e.timestamp
        /\ k.ability_game_id = e.abilityGameID}

\* The persisted event k has the kind of the raw event e and the participants
\* that kind requires.
Populated(k, e) ==
    /\ k.kind = KindOf(e)
    /\ k.kind \in {"cast", "damage", "heal"} => k.source = e.sourceID
    /\ k.kind = "buff" => k.target = e.targetID /\ k.event_type = e.type
    /\ k.kind \in {"damage", "heal", "death"} =>
           \/ k.target = e.targetID /\ k.target # None
           \/ k.target_npc_id = e.targetNPCID /\ k.target_npc_id # None

\* C12 (as claimed): when a pass commits with no failure of the source or the
\* storage and no other unit of its code beside it, every well-formed raw event of each of the five kinds has exactly
\* one persisted record of its kind with the required fields populated, and
\* every raw event that lacks what its kind requires has none.
C12_KindCompleteness ==
    \A i \in 1..Len(log) :
        (log[i].outcome = "commit" /\ log[i].clean /\ log[i].solo) =>
            LET evs == Concat(Source(log[i].code).pages)
                v   == log[i].view
            IN  \A n \in 1..Len(evs) :
                    LET hits == PersistedFrom(v, evs[n])
                    IN  IF WellFormed(log[i].code, evs[n])
                        THEN /\ Cardinality(hits) = 1
                             /\ \A k \in hits : v.events[k] = 1 /\ Populated(k, evs[n])
                        ELSE hits = {}

\* Every entry of the fight list and of the roster of code c has its id.
CompleteIds(c) ==
    /\ \A i \in 1..Len(Source(c).fights) : Source(c).fights[i] # None
    /\ \A i \in 1..Len(Source(c).actors) : Source(c).actors[i].id # None

\* The raw events of code c without the malformed and the unresolvable ones.
Remaining(c) ==
    SelectSeq(Concat(Source(c).pages),
              LAMBDA e : /\ WellFormed(c, e)
                         /\ e.timestamp # Bad /\ e.abilityGameID # Bad)

\* A normalized record as a reader sees its row.
AsSeen(r) ==
    [kind |-> r.kind, event_type |-> r.event_type, fight |-> r.fight_id,
     timestamp_ms |-> r.timestamp_ms, ability_game_id |-> r.ability_game_id,
     source |-> r.source_player_id, target |-> r.target_player_id,
     target_npc_id |-> r.target_npc_id, killing_blow |-> r.killing_blow_player_id,
     amount |-> r.amount]

BagOf(seq) ==
    [k \in {seq[i] : i \in 1..Len(seq)} |->
        Cardinality({i \in 1..Len(seq) : seq[i] = k})]

\* What a reader is to see of the events of code c: the normalizations of the
\* remaining events, internal ids read as the external ids they stand for.
ExpectedEvents(c) ==
    LET fights == {Source(c).fights[i] : i \in 1..Len(Source(c).fights)} \ {None}
        roster == {Source(c).actors[i].id : i \in 1..Len(Source(c).actors)} \ {None}
        b      == Normalize(Remaining(c), [x \in fights |-> x], [x \in roster |-> x])
        recs   == b.cast \o b.buff \o b.damage \o b.heal \o b.death
    IN  BagOf([i \in 1..Len(recs) |-> AsSeen(recs[i])])

\* C13 (as claimed): whatever malformed or unresolvable events the raw event
\* list holds, a pass that neither the source nor the storage fails commits,
\* and the committed events are the normalizations of the remaining events.
C13_RecordErrorsAbsorbed ==
    \A i \in 1..Len(log) :
        (/\ log[i].cause \notin {"source", "storage"}
         /\ log[i].clean /\ log[i].solo
         /\ CompleteIds(log[i].code))
            => /\ log[i].outcome = "commit"
               /\ log[i].view.events = ExpectedEvents(log[i].code)

\* Every raw event of code c has integers where integers are wanted.
WellTyped(c) ==
    \A i \in 1..Len(Concat(Source(c).pages)) :
        /\ Concat(Source(c).pages)[i].timestamp # Bad
        /\ Concat(Source(c).pages)[i].abilityGameID # Bad

\* C14 (as claimed): when an entry of the fight list or of the roster lacks
\* its id, that entry alone is skipped: a pass that neither the source nor the
\* storage fails commits the Report with the fights and the participants that
\* have an id and with their events.
C14_MissingIdSkipped ==
    \A i \in 1..Len(log) :
        (/\ log[i].cause \notin {"source", "storage"}
         /\ log[i].clean /\ log[i].solo
         /\ WellTyped(log[i].code))
            => LET d == Source(log[i].code)
                   v == log[i].view
               IN  /\ log[i].outcome = "commit"
                   /\ v.reports = 1
                   /\ DOMAIN v.fights =
                          {d.fights[k] : k \in 1..Len(d.fights)} \ {None}
                   /\ {x[1] : x \in DOMAIN v.players} =
                          {d.actors[k].id : k \in 1..Len(d.actors)} \ {None}
                   /\ v.events = ExpectedEvents(log[i].code)

\* The unit has left the pagination loop of fetch_report_data, every page
\* having answered.
PagesFetched(u) ==
    /\ unit[u].pc \in {"report", "fights", "players", "bulk", "commit"}
    /\ FightIds(unit[u].fights) # <<>>
    /\ ~unit[u].pageFailed

\* C15: the event fetch loop issues one request per page of the source (one
\* when the first page comes with nextPageTimestamp null, N + 1 when N pages
\* come with a timestamp and the next with null); the first request starts at
\* 0 and each later one at the nextPageTimestamp of the page before; the
\* events returned are the pages' events in page order.
C15_PaginationTermination ==
    \A u \in Units :
        PagesFetched(u) =>
            LET pages == Source(unit[u].code).pages
                req   == unit[u].requests
            IN  /\ Len(req) = IF pages = <<>> THEN 1 ELSE Len(pages)
                /\ req[1] = 0
                /\ \A k \in 2..Len(req) : req[k] = NextPageTimestamp(pages, k - 1)
                /\ unit[u].events = Concat(pages)

\* C15 witness: one unit has read a source of one page with one request and
\* another a source of two pages with two.
C15_Witness ==
    \E u, v \in Units :
        /\ PagesFetched(u) /\ PagesFetched(v)
        /\ Len(Source(unit[u].code).pages) = 1 /\ Len(unit[u].requests) = 1
        /\ Len(Source(unit[v].code).pages) = 2 /\ Len(unit[v].requests) = 2
        /\ unit[v].events # <<>>

\* The answer to a fight events request that found its fight.
EventsReply == reply.op = "events" /\ reply.status = 200

\* C19: whatever the fight and the kind filter, the list a fight events
\* request returns is in non-decreasing order of timestamp_ms, across the
\* kinds.
C19_FightEventsOrdered ==
    EventsReply =>
        \A i, j \in 1..Len(reply.result) :
            i < j => reply.result[i].timestamp_ms <= reply.result[j].timestamp_ms

\* A returned list in which an event of another kind stands between two
\* events of one kind.
C19_Witness ==
    /\ EventsReply
    /\ \E i, j, k \in 1..Len(reply.result) :
          /\ i < j /\ j < k
          /\ reply.result[i].kind = reply.result[k].kind
          /\ reply.result[i].kind # reply.result[j].kind

\* The kind names of a parsed list, or of all five kinds for no list.
NamedKinds(event_types) ==
    {TypesToFetch(event_types)[k] : k \in 1..Len(TypesToFetch(event_types))}

\* C20 (as claimed): the list a fight events request returns holds exactly
\* the persisted events of the fight whose kind is named, each of them once,
\* also when a kind is named more than once.
C20_KindFilterExactlyOnce ==
    EventsReply =>
        BagOf(reply.result) =
            BagOf(CHOOSE o \in Orders({e \in reply.stored :
                                          e.kind \in NamedKinds(reply.event_types)}) : TRUE)

\* The answer to an aggregation request.
AggregateReply == reply.op = "aggregate"

\* The sum of a field over a set of rows.
RECURSIVE TotalOf(_, _)
TotalOf(rows, field) ==
    IF rows = {} THEN 0
    ELSE LET r == CHOOSE x \in rows : TRUE
         IN  r[field] + TotalOf(rows \ {r}, field)

\* The per-fight-per-participant data storage s holds for report code c: for
\* a fight and a participant of the report with a damage or heal event of the
\* participant in the fight, the names and the two totals.
SummaryRows(s, c) ==
    LET rids == ReportIds(s, c)
        of(f, p, kind) == {e \in s.events : /\ e.kind = kind
                                            /\ e.fight_id = f.id
                                            /\ e.source_player_id = p.id}
    IN  {[player_name |-> x[2].name, fight_id |-> x[1].id,
          fight_name |-> x[1].name,
          damage |-> TotalOf(of(x[1], x[2], "damage"), "amount"),
          healing |-> TotalOf(of(x[1], x[2], "heal"), "amount")] :
            x \in {y \in {f \in s.fights : f.report_id \in rids}
                           \X {p \in s.players : p.report_id \in rids} :
                       of(y[1], y[2], "damage") \cup of(y[1], y[2], "heal") # {}}}

\* The rows that count for a fight-name filter: all of them for no filter,
\* else those of the fights whose name is in the list.
Qualifying(rows, boss_names) ==
    IF boss_names = <<>> THEN rows
    ELSE {r \in rows : \E i \in 1..Len(boss_names) : boss_names[i] = r.fight_name}

\* The fight names of the model in lexicographic order.
NameOrder == <<"", "Boss1", "Boss2">>

\* The entry of one participant name over its qualifying rows.
GroupEntry(name, rows) ==
    [player_name |-> name,
     boss_names |-> SelectSeq(NameOrder, LAMBDA n : \E r \in rows : r.fight_name = n),
     total_damage |-> TotalOf(rows, "damage"),
     total_healing |-> TotalOf(rows, "healing")]

\* What an aggregation is to return: per group, in the order of its list, an
\* entry for every name that has a qualifying row.
GroupAggregate(groups, rows) ==
    [g \in DOMAIN groups |->
        LET listed == SelectSeq(groups[g],
                                LAMBDA n : \E r \in rows : r.player_name = n)
        IN  [i \in 1..Len(listed) |->
                GroupEntry(listed[i], {r \in rows : r.player_name = listed[i]})]]

\* C16 (as claimed): an aggregation without a fight-name filter returns, for
\* each group and each listed name that has a row, one entry with the sums of
\* damage and of healing over the rows of the name and the sorted distinct
\* names of the fights of those rows.
C16_AggregationTotals ==
    (AggregateReply /\ reply.boss_names = <<>>) =>
        reply.result = GroupAggregate(reply.groups,
                                      SummaryRows(reply.storage, reply.code))

\* C17 (as claimed): with a fight-name filter only the rows of the fights
\* whose name is in the list count; a listed name with a row in such a fight
\* has an entry, a name without one has none.
C17_AggregationFightFilter ==
    (AggregateReply /\ reply.boss_names # <<>>) =>
        reply.result =
            GroupAggregate(reply.groups,
                           Qualifying(SummaryRows(reply.storage, reply.code),
                                      reply.boss_names))

\* The names listed in the groups of a request.
AllNames(groups) ==
    UNION {{groups[g][i] : i \in 1..Len(groups[g])} : g \in DOMAIN groups}

\* An aggregation request that names nobody, or a report that is not there.
Degenerate(r) ==
    AllNames(r.groups) = {} \/ ReportIds(r.storage, r.code) = {}

\* C18: an aggregation request that names nobody, or a report code that does
\* not exist, is answered (nothing is raised) with exactly the group names of
\* the request, each with an empty list, and the step that answers it leaves
\* the storage as it is.
C18_AggregationDegenerate ==
    /\ [](AggregateReply /\ Degenerate(reply) =>
            /\ reply.status = 200
            /\ DOMAIN reply.result = DOMAIN reply.groups
            /\ \A g \in DOMAIN reply.groups : reply.result[g] = <<>>)
    /\ [][(reply' # reply /\ reply'.op = "aggregate" /\ Degenerate(reply'))
             => (db' = db /\ tx' = tx)]_vars

\* A request for a report code that is not stored, with a group that lists
\* names, has been answered.
C18_Witness ==
    /\ AggregateReply
    /\ ReportIds(reply.storage, reply.code) = {}
    /\ AllNames(reply.groups) # {}
    /\ DOMAIN reply.result = DOMAIN reply.groups

\* The name the roster of unit u gives first for the external actor id x.
FirstName(u, x) ==
    LET i == CHOOSE k \in 1..Len(unit[u].actors) :
                 /\ unit[u].actors[k].id = x
                 /\ \A j \in 1..(k - 1) : unit[u].actors[j].id # x
    IN  unit[u].actors[i].name

\* C21: after the calls of get_or_create_player for a roster the session
\* sees exactly one participant per external actor id of the roster in the
\* report, the one made by the first call for the id, with the name of that
\* call, and a later call for the id (whatever name it carries) has returned
\* that row; every committed report has one participant per actor id of its
\* roster, a row of its own also when another report has the same actor id.
C21_GetOrCreateIdempotent ==
    /\ \A u \in Units :
          Resolved(u) =>
              \A x \in RosterIds(u) :
                  LET rows == FindPlayer(SessionView(u).players,
                                         unit[u].db_report_id, x)
                  IN  /\ Cardinality(rows) = 1
                      /\ \A p \in rows : /\ p.name = FirstName(u, x)
                                          /\ unit[u].player_lookup[x] = p.id
    /\ \A r \in db.reports :
          \A i \in 1..Len(Source(r.report_code).actors) :
              Cardinality(FindPlayer(db.players, r.id,
                                     Source(r.report_code).actors[i].id)) = 1

\* C21 witness: a committed report has a participant for actor 1, and a pass
\* for another report whose roster lists actor 1 twice, under two names, has
\* resolved its roster into a row of its own for the actor.
C21_Witness ==
    \E u \in Units :
        /\ Resolved(u)
        /\ \E i, j \in 1..Len(unit[u].actors) :
              /\ i < j
              /\ unit[u].actors[i].id = unit[u].actors[j].id
              /\ unit[u].actors[i].name # unit[u].actors[j].name
        /\ \E p \in db.players, q \in tx[u].ins.players :
              /\ p.wcl_actor_id = q.wcl_actor_id
              /\ p.report_id # q.report_id
              /\ p.id # q.id

\* The external fight ids of the fight list unit u fetched.
FightListIds(u) == {unit[u].fights[i] : i \in 1..Len(unit[u].fights)}

\* C22 (as claimed): after the fight loop of a pass, whatever the fight list
\* (an external fight id may occur in it more than once), the session sees
\* one Fight row per external fight id of the list in the report and the
\* fight lookup refers to it; the committed storage never holds two Fight
\* rows of one report for one external fight id.
C22_OneFightPerExternalId ==
    /\ \A u \in Units :
          unit[u].pc \in {"players", "bulk", "commit"} =>
              \A x \in FightListIds(u) :
                  LET rows == {f \in SessionView(u).fights :
                                  /\ f.report_id = unit[u].db_report_id
                                  /\ f.wcl_fight_id = x}
                  IN  /\ Cardinality(rows) = 1
                      /\ \A f \in rows : unit[u].fight_lookup[x] = f.id
    /\ \A f1, f2 \in db.fights :
          (f1.report_id = f2.report_id /\ f1.wcl_fight_id = f2.wcl_fight_id)
              => f1.id = f2.id

\* Unit u has normalized an event list of one raw event.
NormalizedOne(u) == Resolved(u) /\ Len(unit[u].events) = 1

\* The records of all five batches of unit u.
AllRecords(u) ==
    unit[u].batches.cast \o unit[u].batches.buff \o unit[u].batches.damage
        \o unit[u].batches.heal \o unit[u].batches.death

\* The raw event passes the checks made ahead of the kind: its fight is in
\* the fight lookup of unit u and it has a timestamp and an ability id.
PassesUniversal(u, e) ==
    /\ e.fight \in DOMAIN unit[u].fight_lookup
    /\ e.timestamp # None
    /\ e.abilityGameID # None

\* The participant the resolver of unit u gives for the raw actor id x.
Participant(u, x) == Resolve(unit[u].player_lookup, x)

\* C23: every Damage and every Heal record the normalizer emits has exactly
\* one of target_player_id and target_npc_id; a raw damage or heal event
\* with a source, whose target resolves to a participant and which carries
\* an NPC id as well, gives one record with the participant and no NPC id,
\* and one with neither a participant target nor an NPC id gives no record.
C23_ExactlyOneTarget ==
    \A u \in Units :
        /\ Resolved(u) =>
              \A k \in {"damage", "heal"} :
                  \A i \in 1..Len(unit[u].batches[k]) :
                      LET rec == unit[u].batches[k][i]
                      IN  (rec.target_player_id # None) # (rec.target_npc_id # None)
        /\ NormalizedOne(u) =>
              LET e == unit[u].events[1]
              IN  (/\ e.type \in {"damage", "heal"}
                   /\ PassesUniversal(u, e)
                   /\ Participant(u, e.sourceID) # None) =>
                      /\ (Participant(u, e.targetID) # None /\ e.targetNPCID # None) =>
                             /\ Len(AllRecords(u)) = 1
                             /\ AllRecords(u)[1].kind = e.type
                             /\ AllRecords(u)[1].target_player_id
                                    = Participant(u, e.targetID)
                             /\ AllRecords(u)[1].target_npc_id = None
                      /\ (Participant(u, e.targetID) = None /\ e.targetNPCID = None) =>
                             AllRecords(u) = <<>>

\* C23 witness: a damage event with a participant target and an NPC id has
\* been normalized into a record.
C23_Witness ==
    \E u \in Units :
        /\ NormalizedOne(u)
        /\ unit[u].events[1].type = "damage"
        /\ Participant(u, unit[u].events[1].targetID) # None
        /\ unit[u].events[1].targetNPCID # None
        /\ Len(unit[u].batches.damage) = 1

\* C25: a raw event whose kind tag is not recognized, or whose fight is not
\* in the fight lookup, or that has no timestamp or no ability id, leaves
\* all five batches without a record, whatever its kind (a death event with
\* a target and no ability id as well).
C25_UniversalSkip ==
    \A u \in Units :
        NormalizedOne(u) =>
            LET e == unit[u].events[1]
            IN  (KindOf(e) = "" \/ ~PassesUniversal(u, e)) => AllRecords(u) = <<>>

\* C25 witness: a death event with a participant target and a timestamp,
\* in the fight of the report, without an ability id, has been normalized.
C25_Witness ==
    \E u \in Units :
        /\ NormalizedOne(u)
        /\ unit[u].events[1].type = "death"
        /\ Participant(u, unit[u].events[1].targetID) # None
        /\ unit[u].events[1].fight \in DOMAIN unit[u].fight_lookup
        /\ unit[u].events[1].timestamp # None
        /\ unit[u].events[1].abilityGameID = None
        /\ AllRecords(u) = <<>>

\* C26 (as claimed): a raw event of any of the eight buff/debuff sub-kinds
\* that passes the checks ahead of the kind and whose target resolves to a
\* participant gives exactly one record, a Buff/Debuff record with the
\* sub-kind of the event.
C26_AllSubKindsRecognized ==
    \A u \in Units :
        NormalizedOne(u) =>
            LET e == unit[u].events[1]
            IN  (/\ e.type \in TransitionTypes
                 /\ PassesUniversal(u, e)
                 /\ Participant(u, e.targetID) # None) =>
                    /\ Len(AllRecords(u)) = 1
                    /\ AllRecords(u)[1].kind = "buff"
                    /\ AllRecords(u)[1].event_type = e.type

\* The row id of the participant the session of unit u holds for the
\* external actor id x of the roster.
RowOf(u, x) ==
    (CHOOSE p \in FindPlayer(SessionView(u).players, unit[u].db_report_id, x) : TRUE).id

\* C27 (as claimed): a cast event that passes the checks ahead of the kind
\* and whose sourceID is an external actor id of the roster, whatever
\* integer that is, gives a record whose source is that participant; its
\* target is the participant of targetID when that is in the roster, and nil
\* only when targetID is absent or not in the roster.
C27_ResolutionTotal ==
    \A u \in Units :
        NormalizedOne(u) =>
            LET e == unit[u].events[1]
            IN  (/\ e.type = "cast"
                 /\ PassesUniversal(u, e)
                 /\ e.sourceID \in RosterIds(u)) =>
                    /\ Len(AllRecords(u)) = 1
                    /\ AllRecords(u)[1].source_player_id = RowOf(u, e.sourceID)
                    /\ AllRecords(u)[1].target_player_id =
                           IF e.targetID \in RosterIds(u)
                           THEN RowOf(u, e.targetID) ELSE None

\* The records the raw events of a list give each on its own, in the batch
\* of kind k.
RECURSIVE OnTheirOwn(_, _, _, _)
OnTheirOwn(events, fl, pl, k) ==
    IF events = <<>> THEN <<>>
    ELSE SelectSeq(NormalizeEvent(Head(events), fl, pl), LAMBDA r : r.kind = k)
             \o OnTheirOwn(Tail(events), fl, pl, k)

\* C28 (as claimed): the event loop of a pass, run over a raw event list in
\* whatever order, ends with batches that hold, kind by kind, the records
\* the events give each on its own: no event has a part in what becomes of
\* another.
C28_OrderIndependent ==
    [][\A u \in Units :
          (unit[u].pc = "players" /\ unit'[u].pc # "players" /\ faults' = faults) =>
              /\ unit'[u].pc = "bulk"
              /\ \A k \in {"cast", "buff", "damage", "heal", "death"} :
                    BagOf(unit'[u].batches[k]) =
                        BagOf(OnTheirOwn(unit[u].events, unit[u].fight_lookup,
                                         unit'[u].player_lookup, k))]_vars

\* Nothing is stored for a report code.
NothingStored == View(EmptyStorage, "")

\* C29: a unit that found nothing stored for its report code and that ended
\* without its final commit (whatever stage failed: the fetch, the report,
\* the fights, the participants, the normalization, a bulk insert, the
\* commit) has none of the rows it made committed, and when no other unit
\* of the code overlapped it, no Report, Fight, Participant or Event row of
\* the code is committed when it ends.
C29_FailedFirstIngestionLeavesNothing ==
    \A i \in 1..Len(log) :
        (log[i].outcome # "commit" /\ log[i].pre = NothingStored) =>
            /\ RowsOfRun(db, log[i].run) = {}
            /\ log[i].solo => log[i].view = NothingStored

\* C29 witness: a first ingestion that had flushed its report, fights,
\* participants and a batch of events failed and left nothing.
C29_Witness ==
    \E i \in 1..Len(log) :
        /\ log[i].outcome = "rollback"
        /\ log[i].pre = NothingStored
        /\ log[i].solo
        /\ Count(log[i].acts, "bulk") >= 1
        /\ log[i].view = NothingStored

\* C24 (as claimed): in every committed state every event row has the
\* participant its kind requires (the source of a cast, a damage and a heal
\* event, the target of a buff event), and its fight and every participant
\* it names are rows that exist and belong to the report of the event.
C24_NoDanglingReferences ==
    \A e \in db.events :
        /\ e.kind \in {"cast", "damage", "heal"} => e.source_player_id # None
        /\ e.kind = "buff" => e.target_player_id # None
        /\ \E f \in db.fights : f.id = e.fight_id /\ f.report_id = e.report_id
        /\ \A x \in {e.source_player_id, e.target_player_id,
                      e.killing_blow_player_id} \ {None} :
              \E p \in db.players : p.id = x /\ p.report_id = e.report_id

\* The rows of storage s that report id owns.
Owned(s, report_id) ==
    [reports |-> {r \in s.reports : r.id = report_id},
     fights  |-> {f \in s.fights  : f.report_id = report_id},
     players |-> {p \in s.players : p.report_id = report_id},
     events  |-> {e \in s.events  : e.report_id = report_id}]

\* C30 (as claimed): after delete_report_by_code has returned True for a
\* report code the storage holds no Report row of the code and no Fight,
\* Participant or event row of that report; for a code that is not stored
\* it returns False and leaves the storage as it was; the rows of the other
\* reports are as they were in either case.
C30_DeletionRemovesEverything ==
    reply.op = "delete" =>
        /\ reply.result =>
              /\ ReportIds(reply.after, reply.code) = {}
              /\ \A id \in ReportIds(reply.before, reply.code) :
                    Owned(reply.after, id) = EmptyStorage
        /\ ReportIds(reply.before, reply.code) = {} =>
              ~reply.result /\ reply.after = reply.before
        /\ \A r \in reply.before.reports :
              r.report_code # reply.code =>
                  Owned(reply.after, r.id) = Owned(reply.before, r.id)

====
